---- MODULE Spec2Model ----
(***************************************************************************)
(* Model of the report computation of scomp: Resolver.computeClassReport   *)
(* and gradeTotalScorePercentage (src/graph/resolver.go), together with    *)
(* the two repository calls that receive the computed reports; of the     *)
(* MongoDB methods and the class and student repositories that store the   *)
(* classes and students; and of the server around them: its shutdown       *)
(* (server.go), AuthMiddleware (graph/middleware.go) and handleError.      *)
(*                                                                         *)
(* Go ranges over maps in an unspecified order, so every `range` over a    *)
(* map is modelled as one step per key, the key being any key not yet      *)
(* visited.  Student IDs and subject names are strings in the code; the    *)
(* model names them by numbers.  Strings produced by fmt.Sprintf are       *)
(* modelled by the decimal they spell (see Sprintf1f below).               *)
(***************************************************************************)
EXTENDS Integers, Sequences, FiniteSets, TLC

VARIABLES
    classSubjects,          \* argument: []*class.Subject
    studentsInfo,           \* argument: map[studentID][]*student.SubjectScore
    pc,                     \* position inside computeClassReport
    totalMaxSubjectsScore,  \* local, resolver.go:49
    subjectScoreMap,        \* local, resolver.go:50
    studentReports,         \* local, resolver.go:59 (slice of student IDs; the
                            \* report pointer is the entry of studentReportMap)
    studentReportMap,       \* local, resolver.go:60
    pendingStudents,        \* keys of studentsInfo the range at :63 has not visited
    pendingSubjects,        \* keys of subjectScoreMap the range at :92 has not visited
    positionIndex,          \* loop index of the range at :122
    classReport,            \* local, resolver.go:117
    nowUnix,                \* local, resolver.go:89
    clock,                  \* the wall clock, in seconds
    dbClassReport,          \* the class document's report field
    dbStudentReports,       \* the student documents' report fields
    saveErr,                \* what the two save calls returned
    run,                    \* number of the invocation on this snapshot
    firstRun,               \* reports computed by the first invocation
    gradeArg,               \* argument of a direct call of gradeTotalScorePercentage
    gradeRet,               \* its result
    classCollection,        \* MongoDB.classCollection: class ID -> dbClassInfo
    studentCollection,      \* MongoDB.studentCollection: the dbStudentRecords
    calls,                  \* the calls of MongoDB methods in progress
    shutdownChan,           \* server.go:194: a signal is in the channel
    shutdownPc,             \* position of the goroutine of server.go:196-214
    mainPc,                 \* position of main and runServer
    ctxDone,                \* server.go:147: ctx is cancelled
    httpServer,             \* server.go:186: the state of s
    mdbConnected,           \* server.go:150: the client of mdb is connected
    wg,                     \* Resolver.wg: the counter of the WaitGroup
    computing,              \* computeClassReport goroutines in flight
    serverError,            \* server.go:217
    requests,               \* report requests served so far
    req,                    \* the request AuthMiddleware is serving
    res,                    \* what was written to its ResponseWriter
    handledErr,             \* the argument of handleError
    returnedErr,            \* its result
    serverLog               \* what log.Printf has written

vars == <<classSubjects, studentsInfo, pc, totalMaxSubjectsScore, subjectScoreMap,
          studentReports, studentReportMap, pendingStudents, pendingSubjects,
          positionIndex, classReport, nowUnix, clock, dbClassReport,
          dbStudentReports, saveErr, run, firstRun, gradeArg, gradeRet,
          classCollection, studentCollection, calls,
          shutdownChan, shutdownPc, mainPc, ctxDone, httpServer, mdbConnected,
          wg, computing, serverError, requests, req, res,
          handledErr, returnedErr, serverLog>>

inputVars == <<classSubjects, studentsInfo, clock>>
localVars == <<totalMaxSubjectsScore, subjectScoreMap, studentReports, studentReportMap,
               pendingStudents, pendingSubjects, positionIndex, classReport, nowUnix>>
dbVars    == <<dbClassReport, dbStudentReports, saveErr>>
gradeVars == <<gradeArg, gradeRet>>
mongoVars == <<classCollection, studentCollection, calls>>
engineVars == <<classSubjects, studentsInfo, localVars, pc, dbVars, run, firstRun, gradeVars>>
serverVars == <<shutdownChan, shutdownPc, mainPc, ctxDone, httpServer, mdbConnected,
                wg, computing, serverError, requests>>
authVars  == <<req, res>>
errorVars == <<handledErr, returnedErr, serverLog>>
serviceVars == <<serverVars, authVars, errorVars>>

----------------------------------------------------------------------------
(* Bounds of the model. *)

\* Largest number of students in a snapshot.
MaxStudents == 3

\* Largest maxScore of the single subject of the wide snapshots (SpecWide).
MaxWideScore == 45

\* Largest numerator and denominator of the percentages handed to the
\* grading function directly (SpecGrade).
MaxPctNum == 120
MaxPctDen == 3

\* Number of invocations on one snapshot (SpecRerun).
MaxRuns == 2

\* Number of concurrent calls of MongoDB methods, and the last second of the
\* wall clock they read (SpecMongo).
MaxCallers == 2
MaxClock == 2

\* Largest maxScore of the first subject of the two-subject snapshots
\* (SpecPair); the second subject has twice that maxScore.
MaxPairScore == 10

\* The subject catalogue of the small snapshots: subject i has this maxScore.
\* A class has the first n of them, n in 0..Len(SubjectMaxScores).
SubjectMaxScores == <<1, 2>>

\* A subject name that is in no class.
UnknownName == 0

----------------------------------------------------------------------------
(* Helpers. *)

Range(s) == {s[i] : i \in DOMAIN s}

RECURSIVE SumSeq(_)
SumSeq(s) == IF s = <<>> THEN 0 ELSE Head(s) + SumSeq(Tail(s))

SetMax(S) == CHOOSE x \in S : \A y \in S : y <= x
SetMin(S) == CHOOSE x \in S : \A y \in S : x <= y

NoReport == [none |-> TRUE]

----------------------------------------------------------------------------
(* Floating point and text.                                                *)
(*                                                                         *)
(* A float64 is [kind, num, den, err]: kind "num" is the value num/den,    *)
(* kind "NaN" and "+Inf" are what 0/0 and x/0 give.  err is the sign of    *)
(* (float64 result - exact quotient) where that sign decides a rounding    *)
(* tie; for every other quotient with a denominator below 80 the float64   *)
(* result rounds and compares as the exact quotient does.                  *)
(*                                                                         *)
(* A string holding a number is [kind, a, b]: kind "fixed" spells the      *)
(* digits a with b of them after the point ("69.0" is a = 690, b = 1, and  *)
(* "69" is a = 69, b = 0); kind "shortest" is the shortest decimal that    *)
(* parses back to the float64 a/b, which is what fmt.Sprint prints; "NaN"  *)
(* and "+Inf" are those words.                                             *)
(***************************************************************************)

NaN    == [kind |-> "NaN", num |-> 0, den |-> 1, err |-> 0]
PosInf == [kind |-> "+Inf", num |-> 0, den |-> 1, err |-> 0]

\* float64(11)/float64(40)*100 = 27.500000000000004 and
\* float64(23)/float64(40)*100 = 57.49999999999999.
Float64Err(score, maxScore) ==
    IF <<score, maxScore>> = <<11, 40>> THEN 1
    ELSE IF <<score, maxScore>> = <<23, 40>> THEN -1
    ELSE 0

\* float64(score/maxScore) * 100 as part_010:102 had it: the quotient of the
\* integers, truncated, before the scaling.
PercentageTruncated(score, maxScore) ==
    IF maxScore = 0
    THEN NaN
    ELSE [kind |-> "num", num |-> 100 * (score \div maxScore), den |-> 1, err |-> 0]

\* float64(score) / float64(maxScore) * 100
Percentage(score, maxScore) ==
    IF maxScore = 0
    THEN (IF score = 0 THEN NaN ELSE PosInf)
    ELSE [kind |-> "num", num |-> 100 * score, den |-> maxScore,
          err |-> Float64Err(score, maxScore)]

Pow10(b) == IF b = 0 THEN 1 ELSE 10

\* x * 10^prec rounded to an integer as strconv formats a float64: to the
\* nearest, a tie of the float64 itself to even.
RoundToPrec(x, prec) ==
    LET n == x.num * Pow10(prec)
        q == n \div x.den
        r == n % x.den
    IN  IF 2 * r > x.den THEN q + 1
        ELSE IF 2 * r < x.den THEN q
        ELSE IF x.err > 0 THEN q + 1
        ELSE IF x.err < 0 THEN q
        ELSE IF q % 2 = 1 THEN q + 1 ELSE q

FormatFixed(x, prec) ==
    IF x.kind = "num"
    THEN [kind |-> "fixed", a |-> RoundToPrec(x, prec), b |-> prec]
    ELSE [kind |-> x.kind, a |-> 0, b |-> 0]

\* fmt.Sprintf("%.1f", x): one digit after the point.
Sprintf_1f(x) == FormatFixed(x, 1)

\* fmt.Sprintf("%1.f", x): width 1 and an empty precision, which is 0: no
\* digit after the point.
Sprintf1_f(x) == FormatFixed(x, 0)

\* fmt.Sprint(x) of a float64
Sprint(x) ==
    IF x.kind = "num"
    THEN [kind |-> "shortest", a |-> x.num, b |-> x.den]
    ELSE [kind |-> x.kind, a |-> 0, b |-> 0]

\* strconv.ParseFloat(str, 64); the error is dropped by the caller.
ParseFloat(str) ==
    IF str.kind = "fixed"
    THEN [kind |-> "num", num |-> str.a, den |-> Pow10(str.b), err |-> 0]
    ELSE IF str.kind = "shortest"
    THEN [kind |-> "num", num |-> str.a, den |-> str.b, err |-> 0]
    ELSE IF str.kind = "+Inf" THEN PosInf
    ELSE NaN

\* x > c for a float64 x and an integer c; false for NaN.
Greater(x, c) ==
    \/ x.kind = "+Inf"
    \/ x.kind = "num" /\ x.num > c * x.den

\* gradeTotalScorePercentage without its last "Pass" arm.
gradeWithoutArm40(totalStudentScorePercentageStr) ==
    LET totalStudentScorePercentage == ParseFloat(totalStudentScorePercentageStr)
    IN  IF Greater(totalStudentScorePercentage, 69) THEN "Excellent"
        ELSE IF Greater(totalStudentScorePercentage, 59) THEN "Good"
        ELSE IF Greater(totalStudentScorePercentage, 49) THEN "Fair"
        ELSE IF Greater(totalStudentScorePercentage, 44) THEN "Pass"
        ELSE "Fail"

\* gradeTotalScorePercentage with the band of its last arm mistaken.
gradeWithArm40Fair(totalStudentScorePercentageStr) ==
    LET totalStudentScorePercentage == ParseFloat(totalStudentScorePercentageStr)
    IN  IF Greater(totalStudentScorePercentage, 69) THEN "Excellent"
        ELSE IF Greater(totalStudentScorePercentage, 59) THEN "Good"
        ELSE IF Greater(totalStudentScorePercentage, 49) THEN "Fair"
        ELSE IF Greater(totalStudentScorePercentage, 44) THEN "Pass"
        ELSE IF Greater(totalStudentScorePercentage, 40) THEN "Fair"
        ELSE "Fail"

\* resolver.go:152-168
gradeTotalScorePercentage(totalStudentScorePercentageStr) ==
    LET totalStudentScorePercentage == ParseFloat(totalStudentScorePercentageStr)
    IN  IF Greater(totalStudentScorePercentage, 69) THEN "Excellent"
        ELSE IF Greater(totalStudentScorePercentage, 59) THEN "Good"
        ELSE IF Greater(totalStudentScorePercentage, 49) THEN "Fair"
        ELSE IF Greater(totalStudentScorePercentage, 44) THEN "Pass"
        ELSE IF Greater(totalStudentScorePercentage, 40) THEN "Pass"
        ELSE "Fail"

\* SliceStable with less(i, j) = key[s[i]] < key[s[j]]: ascending by key.
SliceStableAscending(s, key) ==
    LET Insert(sorted, x) ==
            LET after == {j \in 1..Len(sorted) : key[x] < key[sorted[j]]}
                k == IF after = {} THEN Len(sorted) + 1 ELSE SetMin(after)
            IN  SubSeq(sorted, 1, k - 1) \o <<x>> \o SubSeq(sorted, k, Len(sorted))
        F[i \in 0..Len(s)] == IF i = 0 THEN <<>> ELSE Insert(F[i - 1], s[i])
    IN  F[Len(s)]

\* sort.SliceStable(s, less) with less(i, j) = key[s[i]] > key[s[j]]:
\* descending by key, equal keys keep their order.
SliceStable(s, key) ==
    LET Insert(sorted, x) ==
            LET after == {j \in 1..Len(sorted) : key[x] > key[sorted[j]]}
                k == IF after = {} THEN Len(sorted) + 1 ELSE SetMin(after)
            IN  SubSeq(sorted, 1, k - 1) \o <<x>> \o SubSeq(sorted, k, Len(sorted))
        F[i \in 0..Len(s)] == IF i = 0 THEN <<>> ELSE Insert(F[i - 1], s[i])
    IN  F[Len(s)]

----------------------------------------------------------------------------
(* computeClassReport, resolver.go:48-150. *)

SubjectNames == {classSubjects[i].Name : i \in DOMAIN classSubjects}

\* resolver.go:49-60: the subject map, the maximum total, the empty reports;
\* and :89, the one reading of the clock, on which no step before :134 depends.
Start ==
    /\ pc = "start"
    /\ totalMaxSubjectsScore' =
           SumSeq([i \in DOMAIN classSubjects |-> classSubjects[i].MaxScore])
    /\ subjectScoreMap' =
           [name \in SubjectNames |->
               LET last == SetMax({i \in DOMAIN classSubjects :
                                       classSubjects[i].Name = name})
               IN  [studentScores |-> <<>>, maxScore |-> classSubjects[last].MaxScore]]
    /\ studentReports' = <<>>
    /\ studentReportMap' = <<>>
    /\ pendingStudents' = DOMAIN studentsInfo
    /\ pendingSubjects' = SubjectNames
    /\ nowUnix' = clock
    /\ pc' = "students"
    /\ UNCHANGED <<inputVars, positionIndex, classReport, dbVars, run, firstRun, gradeVars, mongoVars, serviceVars>>

\* The subject map after the inner loop at resolver.go:65-73 has appended the
\* entries of one student, in their order.
GroupScores(scoreMap, studentID, subjects) ==
    LET F[i \in 0..Len(subjects)] ==
            IF i = 0 THEN scoreMap
            ELSE LET name == subjects[i].Name
                 IN  [F[i - 1] EXCEPT ![name].studentScores =
                         Append(@, [studentID |-> studentID, score |-> subjects[i].Score])]
    IN  F[Len(subjects)]

\* resolver.go:75-80
NewReport(totalScore, totalMax) ==
    [Subjects |-> <<>>,
     GeneratedAt |-> 0,
     Class |-> [Position |-> 0, Grade |-> "",
                TotalScore |-> totalScore,
                TotalScorePercentage |-> Sprintf_1f(Percentage(totalScore, totalMax))]]

\* resolver.go:64-66, with = for +=: the score of the last entry.
TotalScoreLastEntry(subjects) ==
    IF subjects = <<>> THEN 0 ELSE subjects[Len(subjects)].Score

\* resolver.go:64-66
TotalScore(subjects) ==
    SumSeq([i \in DOMAIN subjects |-> subjects[i].Score])

\* resolver.go:69: an entry naming a subject that is not a key of
\* subjectScoreMap reads a nil *subjectScoreInfo; the goroutine panics.
StudentPanics(studentID) ==
    /\ pc' = "panic"
    /\ UNCHANGED <<subjectScoreMap, studentReports, studentReportMap, pendingStudents>>

\* resolver.go:64-86
StudentReported(studentID) ==
    LET subjects == studentsInfo[studentID]
    IN  /\ subjectScoreMap' = GroupScores(subjectScoreMap, studentID, subjects)
        /\ studentReportMap' =
               (studentID :> NewReport(TotalScore(subjects), totalMaxSubjectsScore))
                   @@ studentReportMap
        /\ studentReports' = Append(studentReports, studentID)
        /\ pendingStudents' = pendingStudents \ {studentID}
        /\ pc' = "students"

\* StudentStep with a student without entries passed over.
StudentStepSkipEmpty(studentID) ==
    /\ pc = "students"
    /\ studentID \in pendingStudents
    /\ IF \E i \in DOMAIN studentsInfo[studentID] :
              studentsInfo[studentID][i].Name \notin DOMAIN subjectScoreMap
       THEN StudentPanics(studentID)
       ELSE IF studentsInfo[studentID] = <<>>
       THEN /\ pendingStudents' = pendingStudents \ {studentID}
            /\ UNCHANGED <<pc, subjectScoreMap, studentReports, studentReportMap>>
       ELSE StudentReported(studentID)
    /\ UNCHANGED <<inputVars, totalMaxSubjectsScore, pendingSubjects, positionIndex,
                   classReport, nowUnix, dbVars, run, firstRun, gradeVars, mongoVars, serviceVars>>

\* StudentStep with the entries of unknown subjects passed over.
StudentStepSkipUnknown(studentID) ==
    /\ pc = "students"
    /\ studentID \in pendingStudents
    /\ LET subjects == SelectSeq(studentsInfo[studentID],
                                 LAMBDA e : e.Name \in DOMAIN subjectScoreMap)
       IN  /\ subjectScoreMap' = GroupScores(subjectScoreMap, studentID, subjects)
           /\ studentReportMap' =
                  (studentID :> NewReport(TotalScore(subjects), totalMaxSubjectsScore))
                      @@ studentReportMap
    /\ studentReports' = Append(studentReports, studentID)
    /\ pendingStudents' = pendingStudents \ {studentID}
    /\ UNCHANGED <<inputVars, pc, totalMaxSubjectsScore, pendingSubjects, positionIndex,
                   classReport, nowUnix, dbVars, run, firstRun, gradeVars, mongoVars, serviceVars>>

\* resolver.go:63-87, one iteration of the range over studentsInfo.
StudentStep(studentID) ==
    /\ pc = "students"
    /\ studentID \in pendingStudents
    /\ IF \E i \in DOMAIN studentsInfo[studentID] :
              studentsInfo[studentID][i].Name \notin DOMAIN subjectScoreMap
       THEN StudentPanics(studentID)
       ELSE StudentReported(studentID)
    /\ UNCHANGED <<inputVars, totalMaxSubjectsScore, pendingSubjects, positionIndex,
                   classReport, nowUnix, dbVars, run, firstRun, gradeVars, mongoVars, serviceVars>>

\* SubjectReport with students of equal score sharing the position of the
\* first of them.
SubjectReportSharedPosition(subjectName, maxScore, positionIdx, score) ==
    [Name |-> subjectName,
     Score |-> score,
     Grade |-> gradeTotalScorePercentage(Sprint(Percentage(score, maxScore))),
     Position |-> 1 + Cardinality({i \in DOMAIN subjectScoreMap[subjectName].studentScores :
                         subjectScoreMap[subjectName].studentScores[i].score > score})]

\* SubjectReport with the percentage taken of the maximum total of the class.
SubjectReportOfTotalMax(subjectName, maxScore, positionIdx, score) ==
    LET subjectScorePercentage == Percentage(score, totalMaxSubjectsScore)
    IN  [Name |-> subjectName,
         Score |-> score,
         Grade |-> gradeTotalScorePercentage(Sprint(subjectScorePercentage)),
         Position |-> positionIdx + 1]

\* resolver.go:100-108: the subject report of the student at positionIndex.
SubjectReport(subjectName, maxScore, positionIdx, score) ==
    LET subjectScorePercentage == Percentage(score, maxScore)
    IN  [Name |-> subjectName,
         Score |-> score,
         Grade |-> gradeTotalScorePercentage(Sprint(subjectScorePercentage)),
         Position |-> positionIdx + 1]

\* resolver.go:99-109: the report map after the sorted scores of one subject
\* have been appended to their students' reports.
RankSubject(reportMap, subjectName, maxScore, sorted) ==
    LET F[i \in 0..Len(sorted)] ==
            IF i = 0 THEN reportMap
            ELSE [F[i - 1] EXCEPT ![sorted[i].studentID].Subjects =
                     Append(@, SubjectReport(subjectName, maxScore, i - 1, sorted[i].score))]
    IN  F[Len(sorted)]

\* resolver.go:92-110, one iteration of the range over subjectScoreMap.
SubjectStep(subjectName) ==
    /\ pc = "students"
    /\ pendingStudents = {}
    /\ subjectName \in pendingSubjects
    /\ LET subject == subjectScoreMap[subjectName]
           sorted == SliceStable(subject.studentScores,
                                 [e \in Range(subject.studentScores) |-> e.score])
       IN  /\ subjectScoreMap' = [subjectScoreMap EXCEPT ![subjectName].studentScores = sorted]
           /\ studentReportMap' =
                  RankSubject(studentReportMap, subjectName, subject.maxScore, sorted)
    /\ pendingSubjects' = pendingSubjects \ {subjectName}
    /\ UNCHANGED <<inputVars, pc, totalMaxSubjectsScore, studentReports, pendingStudents,
                   positionIndex, classReport, nowUnix, dbVars, run, firstRun, gradeVars, mongoVars, serviceVars>>

EmptyString == [kind |-> "", a |-> 0, b |-> 0]

\* TotalStudents counting only the students who have a score entry.
TotalStudentsWithEntries(reports) ==
    Cardinality({i \in DOMAIN reports : studentsInfo[reports[i]] # <<>>})

\* resolver.go:118: len(studentReports)
TotalStudents(reports) == Len(reports)

\* resolver.go:112-119: the students sorted by total score, the class report
\* with its zero values.
SortStudents ==
    /\ pc = "students"
    /\ pendingStudents = {}
    /\ pendingSubjects = {}
    /\ studentReports' =
           SliceStable(studentReports,
                       [id \in DOMAIN studentReportMap |->
                           studentReportMap[id].Class.TotalScore])
    /\ classReport' = [TotalStudents |-> TotalStudents(studentReports),
                       HighestStudentScore |-> 0,
                       HighestStudentScoreAsPercentage |-> EmptyString,
                       LowestStudentScore |-> 0,
                       LowestStudentScoreAsPercentage |-> EmptyString,
                       GeneratedAt |-> 0]
    /\ positionIndex' = 0
    /\ pc' = "rank"
    /\ UNCHANGED <<inputVars, totalMaxSubjectsScore, subjectScoreMap, studentReportMap,
                   pendingStudents, pendingSubjects, nowUnix, dbVars, run, firstRun,
                   gradeVars, mongoVars, serviceVars>>

\* Extremes with the first comparison made against the lowest score.
ExtremesAgainstLowest(report, totalScore) ==
    IF totalScore > report.LowestStudentScore
    THEN [report EXCEPT !.HighestStudentScore = totalScore]
    ELSE IF report.LowestStudentScore = 0 \/ totalScore < report.LowestStudentScore
    THEN [report EXCEPT !.LowestStudentScore = totalScore]
    ELSE report

\* Extremes with the lowest score assigned only while it is 0.
ExtremesLowestOnce(report, totalScore) ==
    IF totalScore > report.HighestStudentScore
    THEN [report EXCEPT !.HighestStudentScore = totalScore]
    ELSE IF report.LowestStudentScore = 0
    THEN [report EXCEPT !.LowestStudentScore = totalScore]
    ELSE report

\* resolver.go:126-130
Extremes(report, totalScore) ==
    IF totalScore > report.HighestStudentScore
    THEN [report EXCEPT !.HighestStudentScore = totalScore]
    ELSE IF report.LowestStudentScore = 0 \/ totalScore < report.LowestStudentScore
    THEN [report EXCEPT !.LowestStudentScore = totalScore]
    ELSE report

\* StudentPosition with students of equal total score sharing the position of
\* the first of them.
StudentPositionShared(positionIdx) ==
    LET total == studentReportMap[studentReports[positionIdx + 1]].Class.TotalScore
    IN  1 + Cardinality({i \in DOMAIN studentReports :
                 studentReportMap[studentReports[i]].Class.TotalScore > total})

\* resolver.go:124
StudentPosition(positionIdx) == positionIdx + 1

\* ClassGrade of the percentage itself, as the subject grade is computed.
ClassGradeUnrounded(report) ==
    gradeTotalScorePercentage(Sprint(Percentage(report.TotalScore, totalMaxSubjectsScore)))

\* resolver.go:133
ClassGrade(report) == gradeTotalScorePercentage(report.TotalScorePercentage)

\* resolver.go:122-135, one iteration of the range over the sorted students.
ClassStep ==
    /\ pc = "rank"
    /\ positionIndex < Len(studentReports)
    /\ LET studentID == studentReports[positionIndex + 1]
           report == studentReportMap[studentID].Class
       IN  /\ classReport' = Extremes(classReport, report.TotalScore)
           /\ studentReportMap' =
                  [studentReportMap EXCEPT
                      ![studentID].Class.Position = StudentPosition(positionIndex),
                      ![studentID].Class.Grade = ClassGrade(report),
                      ![studentID].GeneratedAt = nowUnix]
    /\ positionIndex' = positionIndex + 1
    /\ UNCHANGED <<inputVars, pc, totalMaxSubjectsScore, subjectScoreMap, studentReports,
                   pendingStudents, pendingSubjects, nowUnix, dbVars, run, firstRun,
                   gradeVars, mongoVars, serviceVars>>

\* resolver.go:137-139
Finish ==
    /\ pc = "rank"
    /\ positionIndex = Len(studentReports)
    /\ classReport' =
           [classReport EXCEPT
               !.HighestStudentScoreAsPercentage =
                   Sprintf_1f(Percentage(classReport.HighestStudentScore,
                                         totalMaxSubjectsScore)),
               !.LowestStudentScoreAsPercentage =
                   Sprintf1_f(Percentage(classReport.LowestStudentScore,
                                         totalMaxSubjectsScore)),
               !.GeneratedAt = nowUnix]
    /\ pc' = "saveClass"
    /\ UNCHANGED <<inputVars, totalMaxSubjectsScore, subjectScoreMap, studentReports,
                   studentReportMap, pendingStudents, pendingSubjects, positionIndex,
                   nowUnix, dbVars, run, firstRun, gradeVars, mongoVars, serviceVars>>

----------------------------------------------------------------------------
(* The repositories.  Every call may fail in the driver; otherwise          *)
(* UpdateOne with SetUpsert(false) reports ModifiedCount 0 when the         *)
(* document it matched already holds the value it is given.                 *)

\* SaveClassReport with computeClassReport returning after a failure of it.
SaveClassReportOrReturn ==
    /\ pc = "saveClass"
    /\ \E driverOK \in BOOLEAN :
          IF ~driverOK
          THEN /\ saveErr' = [saveErr EXCEPT !.class = "UpdateOne error"]
               /\ pc' = "done"
               /\ UNCHANGED dbClassReport
          ELSE IF dbClassReport = classReport
          THEN /\ saveErr' = [saveErr EXCEPT !.class = "ErrorInvalidRequest"]
               /\ pc' = "done"
               /\ UNCHANGED dbClassReport
          ELSE /\ saveErr' = [saveErr EXCEPT !.class = "nil"]
               /\ pc' = "saveStudents"
               /\ dbClassReport' = classReport
    /\ UNCHANGED <<inputVars, localVars, dbStudentReports, run, firstRun, gradeVars, mongoVars, serviceVars>>

\* ClassRepository.SaveClassReport, called at resolver.go:141-144.
SaveClassReport ==
    /\ pc = "saveClass"
    /\ \E driverOK \in BOOLEAN :
          IF ~driverOK
          THEN /\ saveErr' = [saveErr EXCEPT !.class = "UpdateOne error"]
               /\ UNCHANGED dbClassReport
          ELSE IF dbClassReport = classReport
          THEN /\ saveErr' = [saveErr EXCEPT !.class = "ErrorInvalidRequest"]
               /\ UNCHANGED dbClassReport
          ELSE /\ saveErr' = [saveErr EXCEPT !.class = "nil"]
               /\ dbClassReport' = classReport
    /\ pc' = "saveStudents"
    /\ UNCHANGED <<inputVars, localVars, dbStudentReports, run, firstRun, gradeVars, mongoVars, serviceVars>>

\* StudentRepository.SaveStudentReports, called at resolver.go:146-149: one
\* transaction, given up at the first student that is not modified.
SaveStudentReports ==
    /\ pc = "saveStudents"
    /\ \E driverOK \in BOOLEAN :
          IF ~driverOK
          THEN /\ saveErr' = [saveErr EXCEPT !.students = "UpdateOne error"]
               /\ UNCHANGED dbStudentReports
          ELSE IF \E id \in DOMAIN studentReportMap :
                      dbStudentReports[id] = studentReportMap[id]
          THEN /\ saveErr' = [saveErr EXCEPT !.students = "not updated"]
               /\ UNCHANGED dbStudentReports
          ELSE /\ saveErr' = [saveErr EXCEPT !.students = "nil"]
               /\ dbStudentReports' = studentReportMap @@ dbStudentReports
    /\ pc' = "done"
    /\ UNCHANGED <<inputVars, localVars, dbClassReport, run, firstRun, gradeVars, mongoVars, serviceVars>>

\* A second invocation of computeClassReport on the same snapshot, no earlier
\* than the first.
Rerun ==
    /\ pc = "done"
    /\ run < MaxRuns
    /\ run' = run + 1
    /\ firstRun' = [class |-> classReport, students |-> studentReportMap]
    /\ \E t \in {clock, clock + 1} : clock' = t
    /\ pc' = "start"
    /\ totalMaxSubjectsScore' = 0
    /\ subjectScoreMap' = <<>>
    /\ studentReports' = <<>>
    /\ studentReportMap' = <<>>
    /\ pendingStudents' = {}
    /\ pendingSubjects' = {}
    /\ positionIndex' = 0
    /\ classReport' = NoReport
    /\ nowUnix' = 0
    /\ UNCHANGED <<classSubjects, studentsInfo, dbVars, gradeVars, mongoVars, serviceVars>>

\* A direct call of gradeTotalScorePercentage.
GradeCall ==
    /\ pc = "idle"
    /\ gradeRet = ""
    /\ gradeRet' = gradeTotalScorePercentage(gradeArg)
    /\ UNCHANGED <<inputVars, localVars, pc, dbVars, run, firstRun, gradeArg, mongoVars, serviceVars>>

\* A second direct call of gradeTotalScorePercentage, with another
\* percentage; the first call is kept in firstRun.
GradeAgain ==
    /\ pc = "idle"
    /\ gradeRet # ""
    /\ firstRun = NoReport
    /\ firstRun' = [arg |-> gradeArg, ret |-> gradeRet]
    /\ \E num \in 0..MaxPctNum, den \in 1..MaxPctDen :
           gradeArg' = [kind |-> "shortest", a |-> num, b |-> den]
    /\ gradeRet' = ""
    /\ UNCHANGED <<inputVars, localVars, pc, dbVars, run, mongoVars, serviceVars>>

----------------------------------------------------------------------------
(* The MongoDB implementation of ClassDatabase, part_001.  Every method    *)
(* runs in the goroutine of its request: a call is a sequence of database  *)
(* operations, each atomic, between which the operations of other calls    *)
(* take place.  A transaction (withSession) is one atomic operation; the   *)
(* operations that saveReportFn sends with mdb.ctx instead of the session  *)
(* context are outside its transaction.                                    *)

\* internal/db/types.go:8
RequiredClassSubjects == 10

Callers == 1..MaxCallers

\* The class ID of the class of the model, a well-formed class ID without a
\* class, and the empty class ID.
ClassIDs == {"c1", "c2", ""}

\* time.Now().Unix(): the clock does not run backwards.
Now == {t \in {clock, clock + 1} : t <= MaxClock}

\* A subject name that is the empty string.
NoName == -1

\* The subjects of the class: ten names, here with the maxScore 1.
MongoSubjects ==
    [name \in 1..RequiredClassSubjects |-> [Name |-> name, MaxScore |-> 1]]

\* The dbClassInfo that CreateClass inserts, part_001:45-53.
NewClassInfo ==
    [Subjects |-> MongoSubjects,
     StudentsSubjectRecord |-> <<>>,
     ClassReport |-> NoReport,
     LastUpdatedAt |-> 1]

\* The scores a request gives: one for every subject of the class, and the
\* same with one entry wrong or missing.
FullScores == [i \in 1..RequiredClassSubjects |-> [Name |-> i, Score |-> 1]]
SubjectScoreInputs ==
    {FullScores,
     SubSeq(FullScores, 1, RequiredClassSubjects - 1),
     [FullScores EXCEPT ![1].Name = NoName],
     [FullScores EXCEPT ![1].Name = UnknownName],
     [FullScores EXCEPT ![1].Score = -1],
     [FullScores EXCEPT ![1].Score = 2]}

\* The arguments of AddStudentRecordToClass: classID and studentRecord.
AddStudentInputs ==
    {<<"c1", [Name |-> name, SubjectScores |-> scores]>> :
        name \in {"amy", "bob"}, scores \in SubjectScoreInputs}
    \cup {<<classID, [Name |-> "amy", SubjectScores |-> FullScores]>> : classID \in ClassIDs}
    \cup {<<"c1", [Name |-> "", SubjectScores |-> FullScores]>>}

\* The arguments of SaveClassReport: classID, classReport (NoReport for nil)
\* and studentsReport.
SaveReportInputs ==
    {<<"c1", [GeneratedAt |-> t], <<[ID |-> id, Name |-> "amy", Report |-> [GeneratedAt |-> t]]>>>> :
        t \in {1, 2}, id \in {1, 0}}
    \cup {<<"c1", [GeneratedAt |-> 1], <<>>>>, <<"c1", NoReport, <<>>>>}
    \cup {<<classID, [GeneratedAt |-> 1], <<[ID |-> 1, Name |-> "amy", Report |-> [GeneratedAt |-> 1]]>>>> :
              classID \in ClassIDs}

NoCall == [pc |-> "idle", op |-> "", classID |-> "", arg |-> <<>>, next |-> 0, ret |-> <<>>]

\* The call of a caller returns before its first database operation, or
\* with it.
ReturnAtOnce(caller, op, classID, value, err) ==
    calls' = [calls EXCEPT ![caller].pc = "returned",
                           ![caller].op = op,
                           ![caller].classID = classID,
                           ![caller].ret = [value |-> value, err |-> err]]

\* The call of a caller returns.
Return(caller, value, err) ==
    calls' = [calls EXCEPT ![caller].pc = "returned",
                           ![caller].ret = [value |-> value, err |-> err]]

\* part_001:110-129: the first complaint about the scores of a request.
InvalidSubjectScore(dbClass, studentRecord) ==
    \E i \in DOMAIN studentRecord.SubjectScores :
        LET subject == studentRecord.SubjectScores[i]
        IN  \/ subject.Name = NoName
            \/ subject.Score < 0
            \/ subject.Name \notin DOMAIN dbClass.Subjects
            \/ subject.Score > dbClass.Subjects[subject.Name].MaxScore

\* MongoDB.AddStudentRecordToClass, part_001:69-129: the tests of the
\* arguments, the FindOne of the class and the tests of what it found.
MongoAddStudentRecordToClass(caller) ==
    /\ calls[caller].pc = "idle"
    /\ \E input \in AddStudentInputs : \E driverOK \in BOOLEAN :
          LET classID == input[1]
              studentRecord == input[2]
          IN  IF classID = "" \/ studentRecord.Name = ""
              THEN ReturnAtOnce(caller, "AddStudentRecordToClass", classID, "", "ErrorInvalidRequest")
              ELSE IF Len(studentRecord.SubjectScores) # RequiredClassSubjects
              THEN ReturnAtOnce(caller, "AddStudentRecordToClass", classID, "", "ErrorInvalidRequest")
              ELSE IF ~driverOK
              THEN ReturnAtOnce(caller, "AddStudentRecordToClass", classID, "", "FindOne error")
              ELSE IF classID \notin DOMAIN classCollection
              THEN ReturnAtOnce(caller, "AddStudentRecordToClass", classID, "", "ErrorInvalidRequest")
              ELSE IF classCollection[classID].ClassReport # NoReport
              THEN ReturnAtOnce(caller, "AddStudentRecordToClass", classID, "", "ErrorInvalidRequest")
              ELSE IF studentRecord.Name \in
                          DOMAIN classCollection[classID].StudentsSubjectRecord
              THEN ReturnAtOnce(caller, "AddStudentRecordToClass", classID, "", "ErrorInvalidRequest")
              ELSE IF InvalidSubjectScore(classCollection[classID], studentRecord)
              THEN ReturnAtOnce(caller, "AddStudentRecordToClass", classID, "", "ErrorInvalidRequest")
              ELSE calls' = [calls EXCEPT ![caller].pc = "addStudentFn",
                                          ![caller].op = "AddStudentRecordToClass",
                                          ![caller].classID = classID,
                                          ![caller].arg = studentRecord]
    /\ UNCHANGED <<engineVars, serviceVars, clock, classCollection, studentCollection>>

\* part_001:131-166: the transaction of AddStudentRecordToClass, which
\* inserts the student and sets the student's entry of the class.
MongoAddStudentFn(caller) ==
    /\ calls[caller].pc = "addStudentFn"
    /\ \E driverOK \in BOOLEAN :
          IF ~driverOK
          THEN /\ Return(caller, "", "InsertOne error")
               /\ UNCHANGED <<clock, classCollection, studentCollection>>
          ELSE \E now \in Now :
               LET classID == calls[caller].classID
                   studentRecord == calls[caller].arg
                   studentID == Len(studentCollection) + 1
               IN  /\ studentCollection' =
                          Append(studentCollection,
                                 [ID |-> studentID, Name |-> studentRecord.Name,
                                  ClassID |-> classID, StudentReport |-> NoReport])
                   /\ classCollection' =
                          [classCollection EXCEPT
                              ![classID].StudentsSubjectRecord =
                                  (studentRecord.Name :>
                                      [StudentID |-> studentID,
                                       SubjectScores |-> studentRecord.SubjectScores]) @@ @,
                              ![classID].LastUpdatedAt = now]
                   /\ clock' = now
                   /\ Return(caller, studentID, "nil")
    /\ UNCHANGED <<engineVars, serviceVars>>

\* part_001:18: the students a class needs before its report is computed.
minStudentsForReport == 2

\* ClassInfoForReport that refuses a class only when it has no student at
\* all.
MongoClassInfoForReportAnyStudent(caller) ==
    /\ calls[caller].pc = "idle"
    /\ \E classID \in ClassIDs : \E driverOK \in BOOLEAN :
          LET op == "ClassInfoForReport" IN
          IF classID = ""
          THEN ReturnAtOnce(caller, op, classID, "", "ErrorInvalidRequest")
          ELSE IF ~driverOK
          THEN ReturnAtOnce(caller, op, classID, "", "FindOne error")
          ELSE IF classID \notin DOMAIN classCollection
          THEN ReturnAtOnce(caller, op, classID, "", "ErrorInvalidRequest")
          ELSE LET cInfo == classCollection[classID] IN
               IF cInfo.ClassReport # NoReport
               THEN ReturnAtOnce(caller, op, classID, "", "ErrorInvalidRequest")
               ELSE IF DOMAIN cInfo.StudentsSubjectRecord = {}
               THEN ReturnAtOnce(caller, op, classID, "", "ErrorInvalidRequest")
               ELSE ReturnAtOnce(caller, op, classID,
                                 [subjects |-> cInfo.Subjects,
                                  scores |-> [name \in DOMAIN cInfo.StudentsSubjectRecord |->
                                                 cInfo.StudentsSubjectRecord[name].SubjectScores]],
                                 "nil")
    /\ UNCHANGED <<engineVars, serviceVars, clock, classCollection, studentCollection>>

\* MongoDB.ClassInfoForReport, part_001:287-317: the test of classID, the
\* FindOne of the class, and the tests of its report and of the number of
\* its students. The value returned is the subjects of the class and the
\* scores of its students, or "" for the two nil maps.
MongoClassInfoForReport(caller) ==
    /\ calls[caller].pc = "idle"
    /\ \E classID \in ClassIDs : \E driverOK \in BOOLEAN :
          LET op == "ClassInfoForReport" IN
          IF classID = ""
          THEN ReturnAtOnce(caller, op, classID, "", "ErrorInvalidRequest")
          ELSE IF ~driverOK
          THEN ReturnAtOnce(caller, op, classID, "", "FindOne error")
          ELSE IF classID \notin DOMAIN classCollection
          THEN ReturnAtOnce(caller, op, classID, "", "ErrorInvalidRequest")
          ELSE LET cInfo == classCollection[classID] IN
               IF cInfo.ClassReport # NoReport
               THEN ReturnAtOnce(caller, op, classID, "", "ErrorInvalidRequest")
               ELSE IF Cardinality(DOMAIN cInfo.StudentsSubjectRecord) < minStudentsForReport
               THEN ReturnAtOnce(caller, op, classID, "", "ErrorInvalidRequest")
               ELSE ReturnAtOnce(caller, op, classID,
                                 [subjects |-> cInfo.Subjects,
                                  scores |-> [name \in DOMAIN cInfo.StudentsSubjectRecord |->
                                                 cInfo.StudentsSubjectRecord[name].SubjectScores]],
                                 "nil")
    /\ UNCHANGED <<engineVars, serviceVars, clock, classCollection, studentCollection>>

\* MongoDB.SaveClassReport, part_001:172-194: the tests of the arguments, the
\* FindOne of the class and the test of its report.
MongoSaveClassReport(caller) ==
    /\ calls[caller].pc = "idle"
    /\ \E input \in SaveReportInputs : \E driverOK \in BOOLEAN :
          LET classID == input[1]
              classReport_ == input[2]
              studentsReport == input[3]
          IN  IF classID = "" \/ classReport_ = NoReport \/ Len(studentsReport) = 0
              THEN ReturnAtOnce(caller, "SaveClassReport", classID, "", "ErrorInvalidRequest")
              ELSE IF ~driverOK
              THEN ReturnAtOnce(caller, "SaveClassReport", classID, "", "FindOne error")
              ELSE IF classID \notin DOMAIN classCollection
              THEN ReturnAtOnce(caller, "SaveClassReport", classID, "", "ErrorInvalidRequest")
              ELSE IF classCollection[classID].ClassReport # NoReport
              THEN ReturnAtOnce(caller, "SaveClassReport", classID, "", "ErrorInvalidRequest")
              ELSE calls' = [calls EXCEPT ![caller].pc = "saveReportFn",
                                          ![caller].op = "SaveClassReport",
                                          ![caller].classID = classID,
                                          ![caller].arg = [classReport |-> classReport_,
                                                           studentsReport |-> studentsReport]]
    /\ UNCHANGED <<engineVars, serviceVars, clock, classCollection, studentCollection>>

\* part_001:197-208: the UpdateOne of the class, sent with mdb.ctx.
\* ModifiedCount is 0 when the document already holds the values it is given.
MongoSaveReportFn(caller) ==
    /\ calls[caller].pc = "saveReportFn"
    /\ \E driverOK \in BOOLEAN :
          IF ~driverOK
          THEN /\ Return(caller, "", "UpdateOne error")
               /\ UNCHANGED <<clock, classCollection>>
          ELSE \E now \in Now :
               LET classID == calls[caller].classID
                   updated == [classCollection EXCEPT
                                  ![classID].ClassReport = calls[caller].arg.classReport,
                                  ![classID].LastUpdatedAt = now]
               IN  /\ clock' = now
                   /\ classCollection' = updated
                   /\ IF updated = classCollection
                      THEN Return(caller, "", "ErrorInvalidRequest")
                      ELSE calls' = [calls EXCEPT ![caller].pc = "studentsReport",
                                                  ![caller].next = 1]
    /\ UNCHANGED <<engineVars, serviceVars, studentCollection>>

\* part_001:216-219: the filter of the student's UpdateOne.  Its second key
\* is the value of classID, not "classID": it matches the documents that have
\* a field of that name holding that value.
StudentFilterMatches(doc, studentID, classID) ==
    /\ doc.ID = studentID
    /\ classID \in DOMAIN doc
    /\ doc[classID] = classID

\* part_001:210-236: one iteration of the range over studentsReport, and the
\* return after the last.  A student ID of 0 is one that is not well-formed.
MongoSaveStudentReport(caller) ==
    /\ calls[caller].pc = "studentsReport"
    /\ LET classID == calls[caller].classID
           studentsReport == calls[caller].arg.studentsReport
           index == calls[caller].next
       IN  IF index > Len(studentsReport)
           THEN Return(caller, "", "nil") /\ UNCHANGED studentCollection
           ELSE \E driverOK \in BOOLEAN :
                LET studentRecord == studentsReport[index]
                    matched == {i \in DOMAIN studentCollection :
                                   StudentFilterMatches(studentCollection[i],
                                                        studentRecord.ID, classID)}
                    modified == {i \in matched :
                                    studentCollection[i].StudentReport # studentRecord.Report}
                IN  IF studentRecord.ID = 0
                    THEN Return(caller, "", "ErrorInvalidRequest")
                             /\ UNCHANGED studentCollection
                    ELSE IF ~driverOK
                    THEN Return(caller, "", "UpdateOne error") /\ UNCHANGED studentCollection
                    ELSE IF modified = {}
                    THEN Return(caller, "", "ErrorInvalidRequest")
                             /\ UNCHANGED studentCollection
                    ELSE /\ studentCollection' =
                                [i \in DOMAIN studentCollection |->
                                    IF i \in modified
                                    THEN [studentCollection[i] EXCEPT
                                             !.StudentReport = studentRecord.Report]
                                    ELSE studentCollection[i]]
                         /\ calls' = [calls EXCEPT ![caller].next = index + 1]
    /\ UNCHANGED <<engineVars, serviceVars, clock, classCollection>>

----------------------------------------------------------------------------
(* The repositories of internal/class and internal/student, which the    *)
(* server of server.go:146-231 uses: one InsertOne a call, on collections  *)
(* with a unique index.                                                    *)

\* The arguments of ClassRepository.Create: className and subjects.
ClassNames == {"", "jss1", "jss2"}
SubjectsInputs ==
    {MongoSubjects,
     SubSeq(MongoSubjects, 1, RequiredClassSubjects - 1),
     [MongoSubjects EXCEPT ![1].Name = NoName],
     [MongoSubjects EXCEPT ![1].MaxScore = 0],
     [MongoSubjects EXCEPT ![2].Name = 1]}
ClassCreateInputs == ClassNames \X SubjectsInputs

\* The arguments of StudentRepository.Create: classID, studentName and
\* subjectScores.
StudentCreateInputs ==
    {"", "c1"} \X {"", "amy", "bob"} \X (SubjectScoreInputs \cup {<<>>})

\* primitive.NewObjectID().Hex(): an ID that no stored document has.
NewClassID == <<"c1", "c2", "c3">>[Cardinality(DOMAIN classCollection) + 1]

\* ClassRepository.Create: the tests of the arguments and the InsertOne,
\* which the unique index on the name refuses for a name already stored.
ClassRepositoryCreate(caller) ==
    /\ calls[caller].pc = "idle"
    /\ \E input \in ClassCreateInputs : \E driverOK \in BOOLEAN : \E now \in Now :
          LET op == "ClassRepository.Create"
              className == input[1]
              subjects == input[2]
              called == [calls EXCEPT ![caller].arg = [className |-> className, subjects |-> subjects]]
              Refuse(err) ==
                  /\ calls' = [called EXCEPT ![caller].pc = "returned",
                                             ![caller].op = op,
                                             ![caller].ret = [value |-> "", err |-> err]]
                  /\ UNCHANGED <<clock, classCollection>>
          IN  IF className = ""
              THEN Refuse("ErrorInvalidRequest")
              ELSE IF Len(subjects) # RequiredClassSubjects
              THEN Refuse("ErrorInvalidRequest")
              ELSE IF \E index \in DOMAIN subjects :
                         subjects[index].Name = NoName \/ subjects[index].MaxScore < 1
              THEN Refuse("ErrorInvalidRequest")
              ELSE IF ~driverOK
              THEN Refuse("InsertOne error")
              ELSE IF \E classID \in DOMAIN classCollection : classCollection[classID].Name = className
              THEN Refuse("ErrorInvalidRequest")
              ELSE /\ classCollection' =
                          (NewClassID :> [Name |-> className, Subjects |-> subjects,
                                          Report |-> NoReport, CreatedAt |-> now,
                                          LastUpdatedAt |-> now]) @@ classCollection
                   /\ clock' = now
                   /\ calls' = [called EXCEPT ![caller].pc = "returned",
                                              ![caller].op = op,
                                              ![caller].ret = [value |-> NewClassID, err |-> "nil"]]
    /\ UNCHANGED <<engineVars, serviceVars, studentCollection>>

\* StudentRepository.Create: the tests of the arguments and the InsertOne,
\* which the unique index on name and classID refuses for a student already
\* stored; the error of the index is wrapped like any other error of
\* InsertOne.
StudentRepositoryCreate(caller) ==
    /\ calls[caller].pc = "idle"
    /\ \E input \in StudentCreateInputs : \E driverOK \in BOOLEAN : \E now \in Now :
          LET op == "StudentRepository.Create"
              classID == input[1]
              studentName == input[2]
              subjectScores == input[3]
              called == [calls EXCEPT ![caller].classID = classID,
                                      ![caller].arg = [studentName |-> studentName,
                                                       subjectScores |-> subjectScores]]
              Refuse(err) ==
                  /\ calls' = [called EXCEPT ![caller].pc = "returned",
                                             ![caller].op = op,
                                             ![caller].ret = [value |-> "", err |-> err]]
                  /\ UNCHANGED <<clock, studentCollection>>
              studentID == Len(studentCollection) + 1
          IN  IF classID = "" \/ studentName = "" \/ Len(subjectScores) = 0
              THEN Refuse("ErrorInvalidRequest")
              ELSE IF Len(subjectScores) # RequiredClassSubjects
              THEN Refuse("ErrorInvalidRequest")
              ELSE IF \E index \in DOMAIN subjectScores :
                         subjectScores[index].Name = NoName \/ subjectScores[index].Score < 0
              THEN Refuse("ErrorInvalidRequest")
              ELSE IF ~driverOK
              THEN Refuse("InsertOne error")
              ELSE IF \E index \in DOMAIN studentCollection :
                         /\ studentCollection[index].Name = studentName
                         /\ studentCollection[index].ClassID = classID
              THEN Refuse("InsertOne error: duplicate key")
              ELSE /\ studentCollection' =
                          Append(studentCollection,
                                 [ID |-> studentID, Name |-> studentName, ClassID |-> classID,
                                  Report |-> [Subjects |-> subjectScores], CreatedAt |-> now])
                   /\ clock' = now
                   /\ calls' = [called EXCEPT ![caller].pc = "returned",
                                              ![caller].op = op,
                                              ![caller].ret = [value |-> studentID, err |-> "nil"]]
    /\ UNCHANGED <<engineVars, serviceVars, classCollection>>

----------------------------------------------------------------------------
(* The server of server.go: main and runServer, the goroutine that shuts   *)
(* the server down, the goroutine that listens, and the report requests.   *)
(* A step of one goroutine is one action; the goroutines interleave.       *)

\* Largest number of report requests the server is sent.
MaxRequests == 3

\* The process has not exited: its goroutines take steps.
Running == mainPc # "exited"

\* signal.Notify, server.go:194-195: SIGINT or SIGTERM is delivered to
\* shutdownChan.
Signal ==
    /\ Running
    /\ ~shutdownChan
    /\ shutdownChan' = TRUE
    /\ UNCHANGED <<shutdownPc, mainPc, ctxDone, httpServer, mdbConnected, wg, computing,
                   serverError, requests>>
    /\ UNCHANGED <<engineVars, clock, mongoVars, authVars, errorVars>>

\* server.go:218-223: ListenAndServe starts to serve, or fails and sets
\* serverError.
ListenAndServe ==
    /\ Running
    /\ httpServer = "new"
    /\ \/ httpServer' = "listening" /\ UNCHANGED serverError
       \/ httpServer' = "failed" /\ serverError' = "s.ListentAndServe error"
    /\ UNCHANGED <<shutdownChan, shutdownPc, mainPc, ctxDone, mdbConnected, wg, computing, requests>>
    /\ UNCHANGED <<engineVars, clock, mongoVars, authVars, errorVars>>

\* The request that asks for the report of a class: the handler adds one
\* to the WaitGroup and starts computeClassReport in a goroutine of its own.
ReportRequest ==
    /\ Running
    /\ httpServer = "listening"
    /\ requests < MaxRequests
    /\ requests' = requests + 1
    /\ wg' = wg + 1
    /\ computing' = computing + 1
    /\ UNCHANGED <<shutdownChan, shutdownPc, mainPc, ctxDone, httpServer, mdbConnected, serverError>>
    /\ UNCHANGED <<engineVars, clock, mongoVars, authVars, errorVars>>

\* The end of a computeClassReport goroutine: wg.Done.
ComputationDone ==
    /\ Running
    /\ computing > 0
    /\ computing' = computing - 1
    /\ wg' = wg - 1
    /\ UNCHANGED <<shutdownChan, shutdownPc, mainPc, ctxDone, httpServer, mdbConnected,
                   serverError, requests>>
    /\ UNCHANGED <<engineVars, clock, mongoVars, authVars, errorVars>>

\* server.go:197: the shutdown goroutine receives the signal.
ShutdownReceive ==
    /\ Running
    /\ shutdownPc = "receive"
    /\ shutdownChan
    /\ shutdownChan' = FALSE
    /\ shutdownPc' = "wait"
    /\ UNCHANGED <<mainPc, ctxDone, httpServer, mdbConnected, wg, computing, serverError, requests>>
    /\ UNCHANGED <<engineVars, clock, mongoVars, authVars, errorVars>>

\* server.go:198 and Resolver.Wait, resolver.go:26-29: wg.Wait returns when
\* the counter is zero.
Wait ==
    /\ Running
    /\ shutdownPc = "wait"
    /\ wg = 0
    /\ shutdownPc' = "cancel"
    /\ UNCHANGED <<shutdownChan, mainPc, ctxDone, httpServer, mdbConnected, wg, computing,
                   serverError, requests>>
    /\ UNCHANGED <<engineVars, clock, mongoVars, authVars, errorVars>>

\* server.go:199: cancel().
Cancel ==
    /\ Running
    /\ shutdownPc = "cancel"
    /\ ctxDone' = TRUE
    /\ shutdownPc' = "Shutdown"
    /\ UNCHANGED <<shutdownChan, mainPc, httpServer, mdbConnected, wg, computing,
                   serverError, requests>>
    /\ UNCHANGED <<engineVars, clock, mongoVars, authVars, errorVars>>

\* server.go:201-206: s.Shutdown closes the listener; its error is logged
\* only.
Shutdown ==
    /\ Running
    /\ shutdownPc = "Shutdown"
    /\ httpServer' = IF httpServer = "failed" THEN "failed" ELSE "closed"
    /\ shutdownPc' = "ShutdownMongoDB"
    /\ UNCHANGED <<shutdownChan, mainPc, ctxDone, mdbConnected, wg, computing,
                   serverError, requests>>
    /\ UNCHANGED <<engineVars, clock, mongoVars, authVars, errorVars>>

\* server.go:208-213 and db.ShutdownMongoDB: the client disconnects; the
\* error is logged only.
ShutdownMongoDB ==
    /\ Running
    /\ shutdownPc = "ShutdownMongoDB"
    /\ mdbConnected' = FALSE
    /\ shutdownPc' = "done"
    /\ UNCHANGED <<shutdownChan, mainPc, ctxDone, httpServer, wg, computing,
                   serverError, requests>>
    /\ UNCHANGED <<engineVars, clock, mongoVars, authVars, errorVars>>

\* server.go:228-230: runServer is past <-ctx.Done() and returns.
RunServerReturns ==
    /\ mainPc = "runServer"
    /\ ctxDone
    /\ mainPc' = "returned"
    /\ UNCHANGED <<shutdownChan, shutdownPc, ctxDone, httpServer, mdbConnected, wg, computing,
                   serverError, requests>>
    /\ UNCHANGED <<engineVars, clock, mongoVars, authVars, errorVars>>

\* server.go:137-143: main logs the result and returns; the process exits
\* and its goroutines with it.
MainExits ==
    /\ mainPc = "returned"
    /\ mainPc' = "exited"
    /\ UNCHANGED <<shutdownChan, shutdownPc, ctxDone, httpServer, mdbConnected, wg, computing,
                   serverError, requests>>
    /\ UNCHANGED <<engineVars, clock, mongoVars, authVars, errorVars>>

----------------------------------------------------------------------------
(* AuthMiddleware and reqAuthenticated of graph/middleware.go, with        *)
(* Manager.IsValidToken of internal/jwt/jwt.go.                            *)
(*                                                                         *)
(* The header of a request is <<>> when it is not set (Header.Get returns  *)
(* ""), or <<token>>; a token is what ParseClaims makes of it: whether it  *)
(* parses and its signature verifies, and the registered claims it carries *)
(* (0 for a date it does not carry).                                       *)

jwtIssuer == "SCOMP"
jwtAudienceAdmin == "admin"

\* The tokens a request carries.
Tokens ==
    [verifies : BOOLEAN, ID : {"", "admin1"}, Issuer : {jwtIssuer, "other"},
     Audience : {{jwtAudienceAdmin}, {"user"}, {}}, ExpiresAt : {0, 1, 3}, NotBefore : {0, 3}]

\* The header without a token.
NoToken == <<>>

\* The time of the request.
TimeNow == 2

\* RegisteredClaims.IsValidAt of the jwt library: the token has not expired
\* and is not used before its time.
IsValidAt(jwtClaims, now) ==
    /\ jwtClaims.ExpiresAt = 0 \/ now < jwtClaims.ExpiresAt
    /\ jwtClaims.NotBefore = 0 \/ jwtClaims.NotBefore <= now

\* Manager.IsValidToken, jwt.go:72-80: <<ID, valid>>.
IsValidToken(jwtToken) ==
    IF \/ ~jwtToken.verifies
       \/ ~(jwtToken.Issuer = jwtIssuer /\ IsValidAt(jwtToken, TimeNow))
       \/ jwtAudienceAdmin \notin jwtToken.Audience
    THEN <<"", FALSE>>
    ELSE <<jwtToken.ID, TRUE>>

\* The context of a request without a value for adminCtxKey, and the
\* response nothing was written to.
NoValue == {}
NoResponse == [status |-> 0, next |-> FALSE, authenticated |-> FALSE]

\* AuthMiddleware that hands every request to the next handler, with the ID
\* IsValidToken returned.
AuthMiddlewarePassAll ==
    /\ pc = "AuthMiddleware"
    /\ pc' = "next"
    /\ IF req.authToken = NoToken
       THEN UNCHANGED req
       ELSE req' = [req EXCEPT !.adminID = {IsValidToken(req.authToken[1])[1]}]
    /\ UNCHANGED res
    /\ UNCHANGED <<inputVars, localVars, dbVars, run, firstRun, gradeVars>>
    /\ UNCHANGED <<mongoVars, serverVars, errorVars>>

\* AuthMiddleware, middleware.go:17-37.
AuthMiddleware ==
    /\ pc = "AuthMiddleware"
    /\ IF req.authToken = NoToken
       THEN pc' = "next" /\ UNCHANGED <<req, res>>
       ELSE LET adminID == IsValidToken(req.authToken[1])[1]
                validToken == IsValidToken(req.authToken[1])[2]
            IN  IF ~validToken
                THEN /\ res' = [res EXCEPT !.status = 403]
                     /\ pc' = "answered"
                     /\ UNCHANGED req
                ELSE /\ req' = [req EXCEPT !.adminID = {adminID}]
                     /\ pc' = "next"
                     /\ UNCHANGED res
    /\ UNCHANGED <<inputVars, localVars, dbVars, run, firstRun, gradeVars>>
    /\ UNCHANGED <<mongoVars, serverVars, errorVars>>

\* reqAuthenticated, middleware.go:40-46.
reqAuthenticated(ctx) ==
    IF ctx.adminID = NoValue THEN FALSE ELSE ctx.adminID # {""}

\* The next handler serves the request and asks reqAuthenticated.
NextServeHTTP ==
    /\ pc = "next"
    /\ pc' = "answered"
    /\ res' = [status |-> 200, next |-> TRUE, authenticated |-> reqAuthenticated(req)]
    /\ UNCHANGED req
    /\ UNCHANGED <<inputVars, localVars, dbVars, run, firstRun, gradeVars>>
    /\ UNCHANGED <<mongoVars, serverVars, errorVars>>

----------------------------------------------------------------------------
(* handleError of the resolvers and customerror.ErrorUnknown.              *)
(*                                                                         *)
(* An error is the sentinel at its root and the layers fmt.Errorf put      *)
(* around it, innermost first: each layer has its text and whether it      *)
(* wraps what it holds (%w) or only prints it (%v).                        *)

\* Largest number of layers around a sentinel.
MaxLayers == 2

\* db.ErrorInvalidRequest, mongo.ErrNoDocuments and an error of the driver.
Sentinels == {"invalid request", "mongo: no documents in result", "connection refused"}
LayerTexts == {"studentCollection.InsertOne error", "class name jss1 already exists"}
Layers == [text : LayerTexts, wraps : BOOLEAN]
Errors ==
    UNION {[sentinel : Sentinels, layers : [1..count -> Layers]] : count \in 0..MaxLayers}

\* customerror.ErrorUnknown, part_007:19-24.
ErrorUnknown ==
    [sentinel |-> "Something unexpected happened, please try again later", layers |-> <<>>]

\* err.Error(): the texts that make the message.
ErrorText(err) == {err.sentinel} \cup {err.layers[index].text : index \in DOMAIN err.layers}

\* errors.Is(err, db.ErrorInvalidRequest): the chain of Unwrap reaches the
\* sentinel.
IsErrorInvalidRequest(err) ==
    /\ err.sentinel = "invalid request"
    /\ \A index \in DOMAIN err.layers : err.layers[index].wraps

\* handleError that knows an invalid request by the message of the error.
handleErrorByText(err) ==
    IF "invalid request" \in ErrorText(err) THEN err ELSE ErrorUnknown

\* handleError, part_010:11-20: the error returned to the user.
handleError(err) ==
    IF IsErrorInvalidRequest(err) THEN err ELSE ErrorUnknown

\* A call of handleError, with what it logs.
HandleErrorCall ==
    /\ pc = "handleError"
    /\ pc' = "handled"
    /\ returnedErr' = handleError(handledErr)
    /\ serverLog' = IF IsErrorInvalidRequest(handledErr)
                    THEN serverLog
                    ELSE Append(serverLog, ErrorText(handledErr))
    /\ UNCHANGED handledErr
    /\ UNCHANGED <<inputVars, localVars, dbVars, run, firstRun, gradeVars>>
    /\ UNCHANGED <<mongoVars, serverVars, authVars>>

\* The values of the variables of the service while it does nothing.
ServiceIdle ==
    /\ shutdownChan = FALSE
    /\ shutdownPc = "receive"
    /\ mainPc = "runServer"
    /\ ctxDone = FALSE
    /\ httpServer = "new"
    /\ mdbConnected = TRUE
    /\ wg = 0
    /\ computing = 0
    /\ serverError = "nil"
    /\ requests = 0
    /\ req = [authToken |-> NoToken, adminID |-> NoValue]
    /\ res = NoResponse
    /\ handledErr = ErrorUnknown
    /\ returnedErr = ErrorUnknown
    /\ serverLog = <<>>

----------------------------------------------------------------------------
(* Snapshots.                                                              *)
(*                                                                         *)
(* A row gives one student's score in each subject of the class, -1 for a  *)
(* subject the student did not report, and in its last place 0 when the    *)
(* student also has an entry for UnknownName.  A student has at most one   *)
(* entry per subject and the scores are within the subject's maxScore.     *)
(* Student IDs are opaque keys visited in any order, so of the snapshots   *)
(* that differ only by renaming students one is taken: the rows are in     *)
(* lexicographic order.                                                    *)

Catalogue(maxScores) ==
    [i \in DOMAIN maxScores |-> [Name |-> i, MaxScore |-> maxScores[i]]]

Rows(subjects) ==
    LET n == Len(subjects)
    IN  {r \in [1..(n + 1) -> -1..SetMax({0} \cup {subjects[i].MaxScore : i \in 1..n})] :
            /\ \A i \in 1..n : r[i] <= subjects[i].MaxScore
            /\ r[n + 1] <= 0}

Entries(row) ==
    LET n == Len(row) - 1
        all == [i \in 1..(n + 1) |->
                   [Name |-> IF i <= n THEN i ELSE UnknownName, Score |-> row[i]]]
    IN  SelectSeq(all, LAMBDA e : e.Score >= 0)

LexLeq(r1, r2) ==
    \/ r1 = r2
    \/ \E i \in DOMAIN r1 : r1[i] < r2[i] /\ \A j \in 1..(i - 1) : r1[j] = r2[j]

\* The student document as StudentRepository.Create stored it.
CreatedReport(subjects) ==
    [Subjects |-> [i \in DOMAIN subjects |->
                      [Name |-> subjects[i].Name, Score |-> subjects[i].Score,
                       Grade |-> "", Position |-> 0]],
     GeneratedAt |-> 0,
     Class |-> NoReport]

InitWith(subjects, info) ==
    /\ classSubjects = subjects
    /\ studentsInfo = info
    /\ clock = 1
    /\ pc = "start"
    /\ totalMaxSubjectsScore = 0
    /\ subjectScoreMap = <<>>
    /\ studentReports = <<>>
    /\ studentReportMap = <<>>
    /\ pendingStudents = {}
    /\ pendingSubjects = {}
    /\ positionIndex = 0
    /\ classReport = NoReport
    /\ nowUnix = 0
    /\ dbClassReport = NoReport
    /\ dbStudentReports = [id \in DOMAIN info |-> CreatedReport(info[id])]
    /\ saveErr = [class |-> "", students |-> ""]
    /\ run = 1
    /\ firstRun = NoReport
    /\ gradeArg = EmptyString
    /\ gradeRet = ""
    /\ classCollection = <<>>
    /\ studentCollection = <<>>
    /\ calls = <<>>
    /\ ServiceIdle

\* Small snapshots: up to MaxStudents students, the first n catalogue subjects.
Init ==
    \E n \in 0..Len(SubjectMaxScores), k \in 0..MaxStudents :
        LET subjects == Catalogue(SubSeq(SubjectMaxScores, 1, n))
        IN  \E rows \in [1..k -> Rows(subjects)] :
                /\ \A i \in 1..(k - 1) : LexLeq(rows[i], rows[i + 1])
                /\ InitWith(subjects, [id \in 1..k |-> Entries(rows[id])])

\* Wide snapshots: one subject with a maxScore up to MaxWideScore, one student.
InitWide ==
    \E maxScore \in 1..MaxWideScore :
        LET subjects == Catalogue(<<maxScore>>)
        IN  \E row \in Rows(subjects) :
                InitWith(subjects, [id \in 1..1 |-> Entries(row)])

\* Two-subject snapshots: a first subject with a maxScore up to MaxPairScore,
\* a second with the maxScore 2 * MaxPairScore, one student.
InitPair ==
    \E maxScore \in 1..MaxPairScore :
        LET subjects == Catalogue(<<maxScore, 2 * MaxPairScore>>)
        IN  \E row \in Rows(subjects) :
                InitWith(subjects, [id \in 1..1 |-> Entries(row)])

\* Percentages for the grading function called on its own.
InitGrade ==
    /\ \/ \E num \in 0..MaxPctNum, den \in 1..MaxPctDen :
              gradeArg = [kind |-> "shortest", a |-> num, b |-> den]
       \/ \E digits \in 0..(10 * MaxPctNum) :
              gradeArg = [kind |-> "fixed", a |-> digits, b |-> 1]
       \/ gradeArg \in {Sprint(NaN), Sprint(PosInf)}
    /\ gradeRet = ""
    /\ classSubjects = <<>>
    /\ studentsInfo = <<>>
    /\ clock = 1
    /\ pc = "idle"
    /\ totalMaxSubjectsScore = 0
    /\ subjectScoreMap = <<>>
    /\ studentReports = <<>>
    /\ studentReportMap = <<>>
    /\ pendingStudents = {}
    /\ pendingSubjects = {}
    /\ positionIndex = 0
    /\ classReport = NoReport
    /\ nowUnix = 0
    /\ dbClassReport = NoReport
    /\ dbStudentReports = <<>>
    /\ saveErr = [class |-> "", students |-> ""]
    /\ run = 1
    /\ firstRun = NoReport
    /\ classCollection = <<>>
    /\ studentCollection = <<>>
    /\ calls = <<>>
    /\ ServiceIdle

\* The students that earlier calls of AddStudentRecordToClass have stored.
StoredNames == <<"amy", "bob">>
StoredStudents(count) ==
    [studentID \in 1..count |->
        [ID |-> studentID, Name |-> StoredNames[studentID],
         ClassID |-> "c1", StudentReport |-> NoReport]]
StoredRecords(count) ==
    [name \in {StoredNames[studentID] : studentID \in 1..count} |->
        [StudentID |-> CHOOSE studentID \in 1..count : StoredNames[studentID] = name,
         SubjectScores |-> FullScores]]

\* A class that CreateClass has made, with the students added to it so far,
\* and no call yet.
InitMongo ==
    /\ \E count \in 0..Len(StoredNames) :
          /\ classCollection =
                 ("c1" :> [NewClassInfo EXCEPT !.StudentsSubjectRecord = StoredRecords(count)])
          /\ studentCollection = StoredStudents(count)
    /\ calls = [caller \in Callers |-> NoCall]
    /\ ServiceIdle
    /\ clock = 1
    /\ pc = "mongo"
    /\ classSubjects = <<>>
    /\ studentsInfo = <<>>
    /\ totalMaxSubjectsScore = 0
    /\ subjectScoreMap = <<>>
    /\ studentReports = <<>>
    /\ studentReportMap = <<>>
    /\ pendingStudents = {}
    /\ pendingSubjects = {}
    /\ positionIndex = 0
    /\ classReport = NoReport
    /\ nowUnix = 0
    /\ dbClassReport = NoReport
    /\ dbStudentReports = <<>>
    /\ saveErr = [class |-> "", students |-> ""]
    /\ run = 1
    /\ firstRun = NoReport
    /\ gradeArg = EmptyString
    /\ gradeRet = ""

\* The repositories after NewRepository and the creation of class c1, and no
\* call yet.
InitRepo ==
    /\ classCollection =
           ("c1" :> [Name |-> "jss1", Subjects |-> MongoSubjects, Report |-> NoReport,
                     CreatedAt |-> 1, LastUpdatedAt |-> 1])
    /\ studentCollection = <<>>
    /\ calls = [caller \in Callers |-> NoCall]
    /\ ServiceIdle
    /\ clock = 1
    /\ pc = "repo"
    /\ classSubjects = <<>>
    /\ studentsInfo = <<>>
    /\ totalMaxSubjectsScore = 0
    /\ subjectScoreMap = <<>>
    /\ studentReports = <<>>
    /\ studentReportMap = <<>>
    /\ pendingStudents = {}
    /\ pendingSubjects = {}
    /\ positionIndex = 0
    /\ classReport = NoReport
    /\ nowUnix = 0
    /\ dbClassReport = NoReport
    /\ dbStudentReports = <<>>
    /\ saveErr = [class |-> "", students |-> ""]
    /\ run = 1
    /\ firstRun = NoReport
    /\ gradeArg = EmptyString
    /\ gradeRet = ""

\* The engine and the repositories while the service model runs.
EngineIdle ==
    /\ classSubjects = <<>>
    /\ studentsInfo = <<>>
    /\ totalMaxSubjectsScore = 0
    /\ subjectScoreMap = <<>>
    /\ studentReports = <<>>
    /\ studentReportMap = <<>>
    /\ pendingStudents = {}
    /\ pendingSubjects = {}
    /\ positionIndex = 0
    /\ classReport = NoReport
    /\ nowUnix = 0
    /\ clock = 1
    /\ dbClassReport = NoReport
    /\ dbStudentReports = <<>>
    /\ saveErr = [class |-> "", students |-> ""]
    /\ run = 1
    /\ firstRun = NoReport
    /\ gradeArg = EmptyString
    /\ gradeRet = ""
    /\ classCollection = <<>>
    /\ studentCollection = <<>>
    /\ calls = <<>>

\* runServer at server.go:216: the repositories, the resolver and s are
\* made, and the shutdown goroutine is started.
InitServer ==
    /\ EngineIdle
    /\ ServiceIdle
    /\ pc = "server"

\* A request arrives at AuthMiddleware, with a token or without.
InitAuth ==
    /\ EngineIdle
    /\ pc = "AuthMiddleware"
    /\ shutdownChan = FALSE
    /\ shutdownPc = "receive"
    /\ mainPc = "runServer"
    /\ ctxDone = FALSE
    /\ httpServer = "listening"
    /\ mdbConnected = TRUE
    /\ wg = 0
    /\ computing = 0
    /\ serverError = "nil"
    /\ requests = 0
    /\ req \in [authToken : {NoToken} \cup {<<token>> : token \in Tokens}, adminID : {NoValue}]
    /\ res = NoResponse
    /\ handledErr = ErrorUnknown
    /\ returnedErr = ErrorUnknown
    /\ serverLog = <<>>

\* A resolver is about to hand an error to handleError.
InitError ==
    /\ EngineIdle
    /\ pc = "handleError"
    /\ shutdownChan = FALSE
    /\ shutdownPc = "receive"
    /\ mainPc = "runServer"
    /\ ctxDone = FALSE
    /\ httpServer = "listening"
    /\ mdbConnected = TRUE
    /\ wg = 0
    /\ computing = 0
    /\ serverError = "nil"
    /\ requests = 0
    /\ req = [authToken |-> NoToken, adminID |-> NoValue]
    /\ res = NoResponse
    /\ handledErr \in Errors
    /\ returnedErr = ErrorUnknown
    /\ serverLog = <<>>

NextMongo ==
    \/ \E caller \in Callers : MongoAddStudentRecordToClass(caller)
    \/ \E caller \in Callers : MongoAddStudentFn(caller)
    \/ \E caller \in Callers : MongoClassInfoForReport(caller)
    \/ \E caller \in Callers : MongoSaveClassReport(caller)
    \/ \E caller \in Callers : MongoSaveReportFn(caller)
    \/ \E caller \in Callers : MongoSaveStudentReport(caller)

NextRepo ==
    \/ \E caller \in Callers : ClassRepositoryCreate(caller)
    \/ \E caller \in Callers : StudentRepositoryCreate(caller)

NextServer ==
    \/ Signal
    \/ ListenAndServe
    \/ ReportRequest
    \/ ComputationDone
    \/ ShutdownReceive
    \/ Wait
    \/ Cancel
    \/ Shutdown
    \/ ShutdownMongoDB
    \/ RunServerReturns
    \/ MainExits

Next ==
    \/ Start
    \/ \E studentID \in pendingStudents : StudentStep(studentID)
    \/ \E subjectName \in pendingSubjects : SubjectStep(subjectName)
    \/ SortStudents
    \/ ClassStep
    \/ Finish
    \/ SaveClassReport
    \/ SaveStudentReports

Spec == Init /\ [][Next]_vars

SpecWide == InitWide /\ [][Next]_vars

SpecPair == InitPair /\ [][Next]_vars

SpecRerun == Init /\ [][Next \/ Rerun]_vars

SpecGrade == InitGrade /\ [][GradeCall]_vars

SpecGradeTwice == InitGrade /\ [][GradeCall \/ GradeAgain]_vars

SpecMongo == InitMongo /\ [][NextMongo]_vars
SpecRepo == InitRepo /\ [][NextRepo]_vars

SpecServer == InitServer /\ [][NextServer]_vars

SpecAuth == InitAuth /\ [][AuthMiddleware \/ NextServeHTTP]_vars

SpecError == InitError /\ [][HandleErrorCall]_vars

----------------------------------------------------------------------------
(* Properties. *)

Students == DOMAIN studentsInfo
N == Cardinality(Students)

\* The total of the scores a student was given, read from the snapshot.
InputTotal(id) == SumSeq([i \in DOMAIN studentsInfo[id] |-> studentsInfo[id][i].Score])

\* The students with an entry for a subject, read from the snapshot.
Reporters(name) ==
    {id \in Students : \E i \in DOMAIN studentsInfo[id] : studentsInfo[id][i].Name = name}

InputScore(id, name) ==
    LET i == CHOOSE j \in DOMAIN studentsInfo[id] : studentsInfo[id][j].Name = name
    IN  studentsInfo[id][i].Score

\* The subject reports of a student that are named after a subject.
ReportsFor(id, name) ==
    {i \in DOMAIN studentReportMap[id].Subjects : studentReportMap[id].Subjects[i].Name = name}

\* C1: once computeClassReport has run, the class positions of the N students
\* are exactly 1..N and no two students have the same one.
C1_ClassPositionsArePermutation ==
    pc = "done" =>
        /\ {studentReportMap[id].Class.Position : id \in Students} = 1..N
        /\ \A a, b \in Students :
               a # b => studentReportMap[a].Class.Position #
                            studentReportMap[b].Class.Position

\* Three students have been ranked, two of them with equal total scores.
C1_Witness ==
    /\ pc = "done"
    /\ N = 3
    /\ \E a, b \in Students : a # b /\ InputTotal(a) = InputTotal(b) /\ InputTotal(a) > 0

\* C2: for every subject of the class, each of the M students who reported it
\* has one report for it, and the positions in those reports are exactly 1..M,
\* no two students sharing one.
C2_SubjectPositionsArePermutation ==
    pc = "done" =>
        \A name \in SubjectNames :
            /\ \A id \in Reporters(name) : Cardinality(ReportsFor(id, name)) = 1
            /\ \A id \in Students \ Reporters(name) : ReportsFor(id, name) = {}
            /\ UNION {{studentReportMap[id].Subjects[i].Position : i \in ReportsFor(id, name)} :
                         id \in Reporters(name)}
                 = 1..Cardinality(Reporters(name))
            /\ \A a, b \in Reporters(name) :
                   a # b => \A i \in ReportsFor(a, name), j \in ReportsFor(b, name) :
                                studentReportMap[a].Subjects[i].Position #
                                    studentReportMap[b].Subjects[j].Position

\* Two students scored the maximum of the same subject and were ranked in it.
C2_Witness ==
    /\ pc = "done"
    /\ \E name \in SubjectNames : \E a, b \in Reporters(name) :
           /\ a # b
           /\ InputScore(a, name) = subjectScoreMap[name].maxScore
           /\ InputScore(b, name) = subjectScoreMap[name].maxScore

\* The reports without the time they were generated at.
Timeless(class, students) ==
    [class |-> [class EXCEPT !.GeneratedAt = 0],
     students |-> [id \in DOMAIN students |-> [students[id] EXCEPT !.GeneratedAt = 0]]]

\* C3: a second run of computeClassReport on the same snapshot computes the
\* same class report and the same student reports as the first.
C3_SecondRunSameReports ==
    (pc = "done" /\ run = 2) =>
        Timeless(classReport, studentReportMap) = Timeless(firstRun.class, firstRun.students)

\* The grading band of the exact quotient score / maxScore * 100.
ExactBand(score, maxScore) ==
    IF 100 * score > 69 * maxScore THEN "Excellent"
    ELSE IF 100 * score > 59 * maxScore THEN "Good"
    ELSE IF 100 * score > 49 * maxScore THEN "Fair"
    ELSE IF 100 * score > 40 * maxScore THEN "Pass"
    ELSE "Fail"

\* C4: the class grade of every student is the band of the exact percentage
\* totalScore / totalMaxScore * 100.
C4_ClassGradeOfExactPercentage ==
    pc = "done" =>
        \A id \in Students :
            studentReportMap[id].Class.Grade =
                ExactBand(studentReportMap[id].Class.TotalScore, totalMaxSubjectsScore)

\* The number a percentage string spells, as numerator and denominator.
ArgNum == gradeArg.a
ArgDen == IF gradeArg.kind = "fixed" THEN (IF gradeArg.b = 1 THEN 10 ELSE 1) ELSE gradeArg.b
ArgIsNumber == gradeArg.kind \in {"fixed", "shortest"}

\* C5: the grading function gives "Excellent" for p > 69, "Good" for
\* 59 < p <= 69, "Fair" for 49 < p <= 59, "Pass" for 40 < p <= 49 and "Fail"
\* for p <= 40.
C5_GradingBands ==
    (gradeRet # "" /\ ArgIsNumber) =>
        /\ ArgNum > 69 * ArgDen => gradeRet = "Excellent"
        /\ (ArgNum > 59 * ArgDen /\ ArgNum <= 69 * ArgDen) => gradeRet = "Good"
        /\ (ArgNum > 49 * ArgDen /\ ArgNum <= 59 * ArgDen) => gradeRet = "Fair"
        /\ (ArgNum > 40 * ArgDen /\ ArgNum <= 49 * ArgDen) => gradeRet = "Pass"
        /\ ArgNum <= 40 * ArgDen => gradeRet = "Fail"

\* A percentage between the two historical thresholds, 40 < p <= 44, was graded.
C5_Witness ==
    /\ gradeRet = "Pass"
    /\ ArgIsNumber
    /\ ArgNum > 40 * ArgDen
    /\ ArgNum <= 44 * ArgDen

\* C6: the student whose total is the class's lowest (highest) score has the
\* percentage string the class report gives for that score.
C6_ExtremePercentagesAsStudents ==
    pc = "done" =>
        \A id \in Students :
            /\ studentReportMap[id].Class.TotalScore = classReport.LowestStudentScore
                   => studentReportMap[id].Class.TotalScorePercentage =
                          classReport.LowestStudentScoreAsPercentage
            /\ studentReportMap[id].Class.TotalScore = classReport.HighestStudentScore
                   => studentReportMap[id].Class.TotalScorePercentage =
                          classReport.HighestStudentScoreAsPercentage

\* C7: with at least one student, lowestStudentScore is the least total score.
C7_LowestIsMinimum ==
    (pc = "done" /\ N >= 1) =>
        classReport.LowestStudentScore = SetMin({InputTotal(id) : id \in Students})

\* C8: with at least one student, highestStudentScore is the greatest total
\* score.
C8_HighestIsMaximum ==
    (pc = "done" /\ N >= 1) =>
        classReport.HighestStudentScore = SetMax({InputTotal(id) : id \in Students})

\* Three students with three different totals, ranked.
C8_Witness ==
    /\ pc = "done"
    /\ Cardinality({InputTotal(id) : id \in Students}) = 3

\* C9: the scores of a student's subject reports add up to the student's
\* totalScore.
C9_SubjectScoresSumToTotal ==
    pc = "done" =>
        \A id \in Students :
            SumSeq([i \in DOMAIN studentReportMap[id].Subjects |->
                       studentReportMap[id].Subjects[i].Score])
                = studentReportMap[id].Class.TotalScore

\* A student who reported every subject with a non-zero score, next to one
\* who reported only some of the subjects.
C9_Witness ==
    /\ pc = "done"
    /\ Cardinality(SubjectNames) = 2
    /\ \E a, b \in Students :
           /\ Len(studentsInfo[a]) = 2
           /\ \A i \in 1..2 : studentsInfo[a][i].Score > 0
           /\ Len(studentsInfo[b]) = 1
           /\ InputTotal(b) > 0

\* C10: the mapping handed to SaveStudentReports has a report for every
\* student of the snapshot and for no one else.
C10_ReportForEveryStudent ==
    pc \in {"saveStudents", "done"} => DOMAIN studentReportMap = Students

\* Three students, one of them without any entry, at the call of
\* SaveStudentReports.
C10_Witness ==
    /\ pc = "saveStudents"
    /\ N = 3
    /\ \E id \in Students : studentsInfo[id] = <<>>
    /\ \E id \in Students : studentsInfo[id] # <<>>

\* C11: the class report's totalStudents is the number of distinct students of
\* the snapshot.
C11_TotalStudentsIsStudentCount ==
    pc \in {"rank", "saveClass", "saveStudents", "done"} =>
        classReport.TotalStudents = Cardinality(DOMAIN studentsInfo)

\* A class report saved for three students, one of them without any score
\* entry and two with the same entries.
C11_Witness ==
    /\ pc = "done"
    /\ dbClassReport = classReport
    /\ N = 3
    /\ \E id \in Students : studentsInfo[id] = <<>>
    /\ \E a, b \in Students : a # b /\ studentsInfo[a] = studentsInfo[b]
                                   /\ studentsInfo[a] # <<>>

\* The position a student's report gives for a subject.
SubjectPosition(id, name) ==
    LET i == CHOOSE j \in ReportsFor(id, name) : TRUE
    IN  studentReportMap[id].Subjects[i].Position

\* C12: of two students the one with the strictly greater total score has the
\* strictly smaller class position, and within every subject the one with the
\* strictly greater subject score has the strictly smaller subject position.
C12_RankingFollowsScores ==
    pc = "done" =>
        /\ \A a, b \in Students :
               InputTotal(a) > InputTotal(b) =>
                   studentReportMap[a].Class.Position < studentReportMap[b].Class.Position
        /\ \A name \in SubjectNames : \A a, b \in Reporters(name) :
               InputScore(a, name) > InputScore(b, name) =>
                   SubjectPosition(a, name) < SubjectPosition(b, name)

\* Three ranked students with three different totals, the best of them behind
\* another one in some subject.
C12_Witness ==
    /\ pc = "done"
    /\ Cardinality({InputTotal(id) : id \in Students}) = 3
    /\ \E a, b \in Students : \E name \in SubjectNames :
           /\ InputTotal(a) > InputTotal(b)
           /\ {a, b} \subseteq Reporters(name)
           /\ InputScore(a, name) < InputScore(b, name)

\* The maxScore the class gives the subject of that name.
CatalogueMaxScore(name) ==
    LET i == CHOOSE j \in DOMAIN classSubjects : classSubjects[j].Name = name
    IN  classSubjects[i].MaxScore

\* C13: the grade of every subject report is the grading band of
\* score / maxScore * 100, for the score the student was given in the subject
\* the report is named after and the maxScore of that subject.
C13_SubjectGradeOfOwnSubject ==
    pc = "done" =>
        \A id \in Students : \A i \in DOMAIN studentReportMap[id].Subjects :
            LET report == studentReportMap[id].Subjects[i]
            IN  /\ report.Name \in SubjectNames
                /\ id \in Reporters(report.Name)
                /\ report.Grade = ExactBand(InputScore(id, report.Name),
                                            CatalogueMaxScore(report.Name))

\* A student graded in two subjects of different maxScore with the same
\* score, which is "Excellent" in the one and "Pass" in the other.
C13_Witness ==
    /\ pc = "done"
    /\ \E id \in Students : \E i, j \in DOMAIN studentReportMap[id].Subjects :
           /\ studentReportMap[id].Subjects[i].Score = studentReportMap[id].Subjects[j].Score
           /\ studentReportMap[id].Subjects[i].Grade = "Excellent"
           /\ studentReportMap[id].Subjects[j].Grade = "Pass"

\* The sum of the maxScore of all class subjects, read from the snapshot.
CatalogueTotal == SumSeq([i \in DOMAIN classSubjects |-> classSubjects[i].MaxScore])

BandRank(grade) ==
    CASE grade = "Fail" -> 0
      [] grade = "Pass" -> 1
      [] grade = "Fair" -> 2
      [] grade = "Good" -> 3
      [] grade = "Excellent" -> 4

\* The first of two graded percentages, as numerator and denominator.
FirstNum == firstRun.arg.a
FirstDen == IF firstRun.arg.kind = "fixed" THEN (IF firstRun.arg.b = 1 THEN 10 ELSE 1)
            ELSE firstRun.arg.b
BothGraded ==
    /\ pc = "idle"
    /\ firstRun # NoReport
    /\ gradeRet # ""
    /\ firstRun.arg.kind \in {"fixed", "shortest"}
    /\ ArgIsNumber

\* C15: of two graded percentages p1 > p2, the grade of p1 is not a lower
\* band than the grade of p2, in the order Fail < Pass < Fair < Good <
\* Excellent.
C15_GradingMonotonic ==
    BothGraded =>
        /\ FirstNum * ArgDen > ArgNum * FirstDen
               => BandRank(firstRun.ret) >= BandRank(gradeRet)
        /\ ArgNum * FirstDen > FirstNum * ArgDen
               => BandRank(gradeRet) >= BandRank(firstRun.ret)

\* Two percentages between 40 and 49 were graded, one above 44 and one not.
C15_Witness ==
    /\ BothGraded
    /\ FirstNum > 44 * FirstDen /\ FirstNum <= 49 * FirstDen
    /\ ArgNum > 40 * ArgDen /\ ArgNum <= 44 * ArgDen

\* C16: grading the totalScorePercentage stored in a student report gives the
\* class grade stored in the same report.
C16_StoredPercentageGivesStoredGrade ==
    pc = "done" =>
        \A id \in Students :
            gradeTotalScorePercentage(studentReportMap[id].Class.TotalScorePercentage)
                = studentReportMap[id].Class.Grade

\* A saved student report whose stored percentage is in another band than
\* the exact percentage of its total.
C16_Witness ==
    /\ pc = "done"
    /\ \E id \in Students :
           /\ dbStudentReports[id] = studentReportMap[id]
           /\ studentReportMap[id].Class.Grade #
                  ExactBand(studentReportMap[id].Class.TotalScore, totalMaxSubjectsScore)

\* SaveClassReport has been called, or is the next statement.
HandedToRepositories == pc \in {"saveClass", "saveStudents", "done"}

\* C17: with an empty subject list computeClassReport hands no class report
\* and no student reports to the repositories.
C17_EmptySubjectListRefused ==
    classSubjects = <<>> => ~HandedToRepositories

\* Some entry of some student names a subject that is not in the class's list.
UnknownSubjectEntry ==
    \E id \in Students : \E i \in DOMAIN studentsInfo[id] :
        studentsInfo[id][i].Name \notin SubjectNames

\* C18: when an entry names a subject that is not in the class's list, the
\* computation does not get past the loop over the students: neither
\* SaveClassReport nor SaveStudentReports is called and the stored reports
\* stay as they were.
C18_UnknownSubjectNothingSaved ==
    UnknownSubjectEntry =>
        /\ pc \in {"start", "students", "panic"}
        /\ pc = "students" => pendingStudents # {}
        /\ saveErr = [class |-> "", students |-> ""]
        /\ dbClassReport = NoReport
        /\ \A id \in Students : dbStudentReports[id] = CreatedReport(studentsInfo[id])

\* The computation stopped at an unknown subject after the reports of two
\* other students had been built.
C18_Witness ==
    /\ pc = "panic"
    /\ Len(studentReports) = 2
    /\ \E id \in DOMAIN studentReportMap : studentReportMap[id].Class.TotalScore > 0

\* C19: a call of SaveClassReport for a class that already has a report does
\* not succeed and leaves the stored class report as it is, so that of any
\* sequence of calls at most one succeeds.
C19_ClassReportSavedOnce ==
    [][(pc = "saveClass" /\ dbClassReport # NoReport /\ pc' = "saveStudents")
           => (saveErr'.class # "nil" /\ dbClassReport' = dbClassReport)]_vars

\* The names of the students of a class, and the student documents.
MongoStudentNames == DOMAIN classCollection["c1"].StudentsSubjectRecord

\* C20: once the class has a report, no AddStudentRecordToClass call adds a
\* student to it: the students of the class and the student documents stay
\* as they are, whatever the interleaving of the calls.
C20_NoStudentAfterReport ==
    [][classCollection["c1"].ClassReport # NoReport =>
           /\ DOMAIN classCollection'["c1"].StudentsSubjectRecord = MongoStudentNames
           /\ Len(studentCollection') = Len(studentCollection)]_vars

\* The students that were given a class position.
AtPosition(position) ==
    {id \in Students : studentReportMap[id].Class.Position = position}

\* C30: with at least two students, the student at class position 1 has the
\* class report's highestStudentScore as total score and the student at the
\* last position, N, has its lowestStudentScore.
C30_ExtremesAtFirstAndLastPosition ==
    (pc = "done" /\ N >= 2) =>
        /\ AtPosition(1) # {} /\ AtPosition(N) # {}
        /\ \A id \in AtPosition(1) :
               studentReportMap[id].Class.TotalScore = classReport.HighestStudentScore
        /\ \A id \in AtPosition(N) :
               studentReportMap[id].Class.TotalScore = classReport.LowestStudentScore

\* Three ranked students with three different totals, none of them 0.
C30_Witness ==
    /\ pc = "done"
    /\ N = 3
    /\ \A a, b \in Students : a # b => InputTotal(a) # InputTotal(b)
    /\ \A id \in Students : InputTotal(id) > 0
    /\ dbClassReport = classReport

\* C27: computeClassReport calls SaveClassReport once and then
\* SaveStudentReports once: before the first call neither has returned, between
\* the two only SaveClassReport has, and the computation is done only after
\* SaveStudentReports has returned too, whatever SaveClassReport returned.
C27_BothSavesInOrder ==
    /\ pc \in {"start", "students", "rank", "saveClass", "panic"}
           => saveErr = [class |-> "", students |-> ""]
    /\ pc = "saveStudents" => (saveErr.class # "" /\ saveErr.students = "")
    /\ pc = "done" => (saveErr.class # "" /\ saveErr.students # "")

\* SaveClassReport failed and the student reports were saved all the same.
C27_Witness ==
    /\ pc = "done"
    /\ saveErr.class = "UpdateOne error"
    /\ saveErr.students = "nil"
    /\ N >= 2
    /\ dbClassReport = NoReport
    /\ \A id \in Students : dbStudentReports[id] = studentReportMap[id]
\* The callers whose call of ClassInfoForReport for class c1 returns in this
\* step.
ReturningClassInfoForReport ==
    {caller \in Callers :
        /\ calls[caller].pc = "idle"
        /\ calls'[caller].pc = "returned"
        /\ calls'[caller].op = "ClassInfoForReport"
        /\ calls'[caller].classID = "c1"}

\* C21: ClassInfoForReport called for a class that has fewer than two
\* students, or that has a report already, returns an error, which is
\* ErrorInvalidRequest unless the driver failed, and neither subjects nor
\* scores; what it returns without an error is the subjects and the scores
\* of a class with at least two students and no report.
C21_ClassInfoForReportRefusesSmallOrReportedClass ==
    [][\A caller \in ReturningClassInfoForReport :
          LET cInfo == classCollection["c1"]
              ret == calls'[caller].ret
          IN  IF \/ Cardinality(MongoStudentNames) < 2
                 \/ cInfo.ClassReport # NoReport
              THEN /\ ret.err \in {"ErrorInvalidRequest", "FindOne error"}
                   /\ ret.value = ""
              ELSE ret.err = "nil" =>
                      /\ ret.value.subjects = cInfo.Subjects
                      /\ DOMAIN ret.value.scores = MongoStudentNames]_vars

\* C21: a class with one student and no report, and a call of
\* ClassInfoForReport for it that returned ErrorInvalidRequest and nothing
\* else, while no other call is under way.
C21_Witness ==
    \E caller \in Callers :
        /\ calls[caller].pc = "returned"
        /\ calls[caller].op = "ClassInfoForReport"
        /\ calls[caller].classID = "c1"
        /\ calls[caller].ret = [value |-> "", err |-> "ErrorInvalidRequest"]
        /\ Cardinality(MongoStudentNames) = 1
        /\ classCollection["c1"].ClassReport = NoReport
        /\ \A other \in Callers \ {caller} : calls[other].pc = "idle"
\* C22: no two student documents of one class have the same student name,
\* whatever the sequence and the interleaving of the AddStudentRecordToClass
\* calls on the class.
C22_NoDuplicateStudentNames ==
    \A first, second \in DOMAIN studentCollection :
        (/\ first # second
         /\ studentCollection[first].ClassID = studentCollection[second].ClassID)
            => studentCollection[first].Name # studentCollection[second].Name
\* C23: every student document stored for a class has RequiredClassSubjects
\* score entries, each of a subject of the class, named, with a score from 0
\* to the maximum score of the subject.
C23_StoredScoresValid ==
    \A index \in DOMAIN studentCollection :
        LET student == studentCollection[index]
            scores == student.Report.Subjects
            subjects == classCollection[student.ClassID].Subjects
        IN  /\ Len(scores) = RequiredClassSubjects
            /\ \A entry \in DOMAIN scores :
                   /\ scores[entry].Name # NoName
                   /\ \E subject \in DOMAIN subjects :
                          /\ subjects[subject].Name = scores[entry].Name
                          /\ scores[entry].Score \in 0..subjects[subject].MaxScore

\* C24: every class stored has a name, which no other class stored has, and
\* RequiredClassSubjects subjects, each with a name that no other subject of
\* the class has and a maximum score of at least 1.
C24_StoredClassesValid ==
    \A classID \in DOMAIN classCollection :
        LET class == classCollection[classID]
            subjects == class.Subjects
        IN  /\ class.Name # ""
            /\ \A other \in DOMAIN classCollection \ {classID} :
                   classCollection[other].Name # class.Name
            /\ Len(subjects) = RequiredClassSubjects
            /\ \A first \in DOMAIN subjects :
                   /\ subjects[first].Name # NoName
                   /\ subjects[first].MaxScore >= 1
                   /\ \A second \in DOMAIN subjects \ {first} :
                          subjects[second].Name # subjects[first].Name
\* C25: while a computeClassReport goroutine is in flight, the root context
\* is not cancelled and the database is not disconnected.
C25_StorageHeldWhileComputing ==
    computing > 0 => (~ctxDone /\ mdbConnected)

\* The error wraps db.ErrorInvalidRequest: the sentinel is at its root and
\* no layer around it only prints what it holds.
WrapsInvalidRequest(err) ==
    /\ err.sentinel = "invalid request"
    /\ ~\E index \in DOMAIN err.layers : ~err.layers[index].wraps

\* C26: handleError returns the error it was given only when the error wraps
\* db.ErrorInvalidRequest; for every other error it returns ErrorUnknown,
\* whose message has no text of the error given.
C26_OnlyInvalidRequestReachesUser ==
    pc = "handled" =>
        /\ returnedErr = handledErr => WrapsInvalidRequest(handledErr)
        /\ ~WrapsInvalidRequest(handledErr) =>
               /\ returnedErr = ErrorUnknown
               /\ ErrorText(returnedErr) \cap ErrorText(handledErr) = {}

\* C26: an error that prints db.ErrorInvalidRequest in its message without
\* wrapping it was handed to handleError, which logged it and returned
\* ErrorUnknown.
C26_Witness ==
    /\ pc = "handled"
    /\ handledErr.sentinel = "invalid request"
    /\ \E index \in DOMAIN handledErr.layers : ~handledErr.layers[index].wraps
    /\ returnedErr = ErrorUnknown
    /\ serverLog = <<ErrorText(handledErr)>>

\* C28: runServer has returned, or the process has exited, only when the
\* shutdown goroutine is past s.Shutdown and db.ShutdownMongoDB.
C28_ReturnsAfterShutdownCompleted ==
    mainPc \in {"returned", "exited"} => shutdownPc = "done"

\* The request carries a token that parses, is signed by this server, was
\* issued by SCOMP for the admin audience, and is neither expired nor used
\* before its time.
TokenValidated ==
    /\ req.authToken # NoToken
    /\ LET token == req.authToken[1]
       IN  /\ token.verifies
           /\ token.Issuer = "SCOMP"
           /\ "admin" \in token.Audience
           /\ token.ExpiresAt \in {0} \cup {time \in 1..4 : time > TimeNow}
           /\ token.NotBefore \in 0..TimeNow

\* C29: a request with a token that is not valid is answered 403 and never
\* reaches the next handler; the context has an adminID, the ID of the
\* token, only when the token was validated; a request without a token
\* reaches the next handler without adminID; and reqAuthenticated is true
\* only for a validated token with a non-empty ID.
C29_OnlyValidatedTokensAuthenticate ==
    /\ req.adminID # NoValue => (TokenValidated /\ req.adminID = {req.authToken[1].ID})
    /\ pc = "answered" =>
          /\ (req.authToken # NoToken /\ ~TokenValidated) =>
                 (res.status = 403 /\ ~res.next /\ ~res.authenticated)
          /\ req.authToken = NoToken => (res.next /\ req.adminID = NoValue)
          /\ res.authenticated => (TokenValidated /\ req.authToken[1].ID # "")

\* C29: a request whose token is signed by this server but has expired was
\* answered 403 without reaching the next handler.
C29_Witness ==
    /\ pc = "answered"
    /\ req.authToken # NoToken
    /\ req.authToken[1].verifies
    /\ req.authToken[1].Issuer = "SCOMP"
    /\ req.authToken[1].Audience = {"admin"}
    /\ req.authToken[1].ExpiresAt = 1
    /\ res = [status |-> 403, next |-> FALSE, authenticated |-> FALSE]
    /\ req.adminID = NoValue
====
